---- MODULE Spec2Model ----
(***************************************************************************)
(* A model of geowrangler/gridding_utils/polygon_fill.py: the supercover   *)
(* line walker (voxel_traversal_2d), the scanline interior fill            *)
(* (scanline_fill), the polygon rasterizer (voxel_traversal_scanline_fill) *)
(* and the batch driver (fast_polygon_fill).                               *)
(* polygons_to_vertices, the preprocessing that makes the vertex table, is  *)
(* modelled as well.                                                       *)
(*                                                                         *)
(* A grid point is a pair <<x, y>> of integers.  Python lists are          *)
(* sequences, Python sets are sets.                                        *)
(***************************************************************************)
EXTENDS Integers, Sequences, FiniteSets

VARIABLES
    start_vertex,   \* voxel_traversal_2d: argument start_vertex
    end_vertex,     \* voxel_traversal_2d: argument end_vertex
    w,              \* voxel_traversal_2d: the locals of the call and its position
    vertices,       \* voxel_traversal_scanline_fill: the vertex ring of the call
    f,              \* voxel_traversal_scanline_fill and the scanline_fill it calls:
                    \* the locals of the call and its position
    vertices_df,    \* fast_polygon_fill: argument vertices_df, the vertex table
    unique_id_col,  \* fast_polygon_fill: argument unique_id_col, or "None"
    b,              \* fast_polygon_fill: the locals of the call and its position
    polys_gdf,      \* polygons_to_vertices: argument polys_gdf, the source polygons
    gdf_unique_id_col,  \* polygons_to_vertices: argument unique_id_col, or "None"
    g               \* polygons_to_vertices: the locals of the call and its position

vars == <<start_vertex, end_vertex, w, vertices, f, vertices_df, unique_id_col, b,
          polys_gdf, gdf_unique_id_col, g>>

----------------------------------------------------------------------------
(* Bounds of the walker's inputs: both endpoints lie in 0..WalkMax squared. *)
WalkMax == 3

WalkCoords == 0..WalkMax

WalkPoints == WalkCoords \X WalkCoords

(* Bounds of the rasterizer's inputs: a ring is a triangle (or a shorter ring)
   with vertices in 0..TriMax squared, or a ring of at most MaxVerts vertices in
   0..FillMax squared. *)
TriMax == 3

FillMax == 1

MaxVerts == 4

Triangles == UNION {[1..n -> (0..TriMax) \X (0..TriMax)] : n \in 0..3}

LongRings == UNION {[1..n -> (0..FillMax) \X (0..FillMax)] : n \in 0..MaxVerts}

Rings == Triangles \cup LongRings

(* Bound of the rectangles: corners in 0..RectMax squared. *)
RectMax == 4

(* Bounds of the batch driver's inputs: a vertex table has at most three rows
   with x and y in 0..BatchMax, or at most MaxRows rows with x and y in 0..1. *)
BatchMax == 1

MaxRows == 3

(* the keys (subpolygon id, identifier) of the rows: two parts of the polygon
   with identifier 1, and the polygon with identifier 2 *)
BatchKeys == {<<0, 1>>, <<1, 1>>, <<0, 2>>}

BatchIds == {key[2] : key \in BatchKeys}

RowsOver(coords) ==
    {[x |-> x, y |-> y, sub |-> key[1], id |-> key[2]] :
        x \in coords, y \in coords, key \in BatchKeys}

WideTables == UNION {[1..n -> RowsOver(0..BatchMax)] : n \in 0..3}

LongTables == UNION {[1..n -> RowsOver(0..1)] : n \in 0..MaxRows}

Tables == WideTables \cup LongTables

(* Bounds of the preprocessing's inputs: at most MaxPolys source polygons, each
   with an index value, an identifier and a geometry of one or two parts; a part
   is a Polygon (a closed ring) or a LineString. *)
MaxPolys == 2

PolygonPart == [type |-> "Polygon", coords |-> << <<0, 0>>, <<0, 1>>, <<1, 1>>, <<0, 0>> >>]

LinePart == [type |-> "LineString", coords |-> << <<0, 0>>, <<1, 1>> >>]

Geometries == UNION {[1..n -> {PolygonPart, LinePart}] : n \in 1..2}

GdfRows == [index : 0..1, id : 1..2, geometry : Geometries]

GeoDataFrames == UNION {[1..n -> GdfRows] : n \in 0..MaxPolys}

----------------------------------------------------------------------------
(* Python helpers *)

Abs(n) == IF n < 0 THEN -n ELSE n

(* list(range(start, stop, step)) for step = 1 or step = -1 *)
Range(start, stop, step) ==
    LET n == IF (stop - start) * step > 0 THEN (stop - start) * step ELSE 0
    IN  [i \in 1..n |-> start + (i - 1) * step]

(* the set of the elements of a list *)
SetOf(seq) == {seq[i] : i \in 1..Len(seq)}

----------------------------------------------------------------------------
(* voxel_traversal_2d *)

(* direction_x = 1 if x2 > x1 else -1 (and the same for y) *)
Direction(c1, c2) == IF c2 > c1 THEN 1 ELSE -1

(* the locals of a call that has not run yet *)
WalkIdle ==
    [pc |-> "start", pixel_x |-> 0, pixel_y |-> 0, ix |-> 0, iy |-> 0,
     nx |-> 0, ny |-> 0, max_steps |-> 0, n_steps |-> 0,
     pixels |-> <<>>, off_diagonal_pixels |-> <<>>]

(* a return of the function: result["line_pixels"], result["off_diagonal_pixels"] *)
WalkReturn(s, line, off) ==
    [s EXCEPT !.pc = "done", !.pixels = line, !.off_diagonal_pixels = off]

(* the "Single point" branch *)
SinglePointLine(v1, v2) == <<v1>>

(* a mutant of VerticalLine: range(y1, y2, direction_y), the end cell left out *)
VerticalLineOpenEnd(v1, v2) ==
    LET ys == Range(v1[2], v2[2], Direction(v1[2], v2[2]))
    IN  [i \in 1..Len(ys) |-> <<v1[1], ys[i]>>]

(* the "Vertical line" branch *)
VerticalLine(v1, v2) ==
    LET ys == Range(v1[2], v2[2] + Direction(v1[2], v2[2]), Direction(v1[2], v2[2]))
    IN  [i \in 1..Len(ys) |-> <<v1[1], ys[i]>>]

(* the "Horizontal line" branch *)
HorizontalLine(v1, v2) ==
    LET xs == Range(v1[1], v2[1] + Direction(v1[1], v2[1]), Direction(v1[1], v2[1]))
    IN  [i \in 1..Len(xs) |-> <<xs[i], v1[2]>>]

(* a mutant of MaxSteps: the ceiling doubled *)
MaxStepsDoubled(nx, ny) == 2 * (nx + ny)

(* max_steps = nx + ny *)
MaxSteps(nx, ny) == nx + ny

(* the set-up of the general walk, from dy = y2 - y1 to n_steps = 0 *)
WalkSetup(v1, v2) ==
    LET dy == v2[2] - v1[2]
        dx == v2[1] - v1[1]
    IN  [pc |-> "loop", pixel_x |-> v1[1], pixel_y |-> v1[2], ix |-> 0, iy |-> 0,
         nx |-> Abs(dx), ny |-> Abs(dy), max_steps |-> MaxSteps(Abs(dx), Abs(dy)),
         n_steps |-> 0, pixels |-> <<v1>>, off_diagonal_pixels |-> <<>>]

(* a mutant of Decision: the two axes' lengths exchanged *)
DecisionAxesSwapped(s) == (1 + 2 * s.ix) * s.nx - (1 + 2 * s.iy) * s.ny

(* decision = (1 + 2 * ix) * ny - (1 + 2 * iy) * nx *)
Decision(s) == (1 + 2 * s.ix) * s.ny - (1 + 2 * s.iy) * s.nx

(* a mutant of Advance: the tie branch is missing and "decision >= 0" takes the
   vertical step *)
AdvanceTieVertical(s, v1, v2) ==
    LET direction_x == Direction(v1[1], v2[1])
        direction_y == Direction(v1[2], v2[2])
    IN  IF Decision(s) < 0
        THEN [s EXCEPT !.pixel_x = s.pixel_x + direction_x, !.ix = s.ix + 1]
        ELSE [s EXCEPT !.pixel_y = s.pixel_y + direction_y, !.iy = s.iy + 1]

(* a mutant of Advance: "decision <= 0" takes the horizontal step, so a tie is
   no diagonal step and records nothing *)
AdvanceTieHorizontal(s, v1, v2) ==
    LET direction_x == Direction(v1[1], v2[1])
        direction_y == Direction(v1[2], v2[2])
    IN  IF Decision(s) <= 0
        THEN [s EXCEPT !.pixel_x = s.pixel_x + direction_x, !.ix = s.ix + 1]
        ELSE [s EXCEPT !.pixel_y = s.pixel_y + direction_y, !.iy = s.iy + 1]

(* the three branches on decision: diagonal, horizontal, vertical step *)
Advance(s, v1, v2) ==
    LET direction_x == Direction(v1[1], v2[1])
        direction_y == Direction(v1[2], v2[2])
        decision == Decision(s)
    IN  IF decision = 0
        THEN [s EXCEPT !.off_diagonal_pixels =
                           s.off_diagonal_pixels
                               \o << <<s.pixel_x + direction_x, s.pixel_y>>,
                                     <<s.pixel_x, s.pixel_y + direction_y>> >>,
                       !.pixel_x = s.pixel_x + direction_x,
                       !.pixel_y = s.pixel_y + direction_y,
                       !.ix = s.ix + 1,
                       !.iy = s.iy + 1]
        ELSE IF decision < 0
        THEN [s EXCEPT !.pixel_x = s.pixel_x + direction_x, !.ix = s.ix + 1]
        ELSE [s EXCEPT !.pixel_y = s.pixel_y + direction_y, !.iy = s.iy + 1]

(* is_x_finished and is_y_finished *)
IsFinished(s, v1, v2) ==
    LET direction_x == Direction(v1[1], v2[1])
        direction_y == Direction(v1[2], v2[2])
        is_x_finished == IF direction_x = 1 THEN s.pixel_x >= v2[1] ELSE s.pixel_x <= v2[1]
        is_y_finished == IF direction_y = 1 THEN s.pixel_y >= v2[2] ELSE s.pixel_y <= v2[2]
    IN  is_x_finished /\ is_y_finished

(* a mutant of LoopBody: the body is skipped (a stray continue at its top) *)
LoopBodySkipped(s, v1, v2) == s

(* one iteration of "while not is_finished" *)
LoopBody(s, v1, v2) ==
    LET counted == [s EXCEPT !.n_steps = s.n_steps + 1]
    IN  IF counted.n_steps > counted.max_steps
        THEN [counted EXCEPT !.pc = "raise"]
        ELSE LET moved == Advance(counted, v1, v2)
                 appended == [moved EXCEPT
                                 !.pixels = Append(moved.pixels,
                                                   <<moved.pixel_x, moved.pixel_y>>)]
             IN  IF IsFinished(appended, v1, v2)
                 THEN [appended EXCEPT !.pc = "done"]
                 ELSE appended

(* the whole call, as a function of its arguments *)
RECURSIVE RunLoop(_, _, _)
RunLoop(s, v1, v2) ==
    IF s.pc = "loop" THEN RunLoop(LoopBody(s, v1, v2), v1, v2) ELSE s

voxel_traversal_2d(v1, v2) ==
    IF v1[1] = v2[1] /\ v1[2] = v2[2]
    THEN WalkReturn(WalkIdle, SinglePointLine(v1, v2), <<>>)
    ELSE IF v1[1] = v2[1]
    THEN WalkReturn(WalkIdle, VerticalLine(v1, v2), <<>>)
    ELSE IF v1[2] = v2[2]
    THEN WalkReturn(WalkIdle, HorizontalLine(v1, v2), <<>>)
    ELSE RunLoop(WalkSetup(v1, v2), v1, v2)

----------------------------------------------------------------------------
(* interpolate_x and scanline_fill.

   An interpolated x is the float x1 + (y - y1) * ((x2 - x1) / (y2 - y1)).  It is
   modelled by the exact fraction num / den with den > 0.  For coordinates in
   0..8 the float of every edge and scanline rounds, by Python's round, to the
   integer that the exact fraction rounds to by round-half-to-even, and floats
   of distinct fractions are ordered as the fractions are, so the rounded values
   of the sorted list are those of the model. *)

(* interpolate_x; raised stands for the ValueError of a horizontal segment *)
interpolate_x(v1, v2, y) ==
    IF v1[2] = v2[2]
    THEN [raised |-> TRUE, num |-> 0, den |-> 1]
    ELSE LET dy == v2[2] - v1[2]
             n == v1[1] * dy + (y - v1[2]) * (v2[1] - v1[1])
         IN  [raised |-> FALSE,
              num |-> IF dy < 0 THEN -n ELSE n,
              den |-> Abs(dy)]

(* p <= q on interpolated values *)
LessEq(p, q) == p.num * q.den <= q.num * p.den

(* a mutant of SortAsc: the list is left in the order of the edges *)
SortAscSkipped(seq) == seq

(* list.sort(): ascending; insertion, stable *)
RECURSIVE SortAsc(_)
SortAsc(seq) ==
    IF Len(seq) <= 1
    THEN seq
    ELSE LET front == SortAsc(SubSeq(seq, 1, Len(seq) - 1))
             x == seq[Len(seq)]
             k == Cardinality({i \in 1..Len(front) : LessEq(front[i], x)})
         IN  SubSeq(front, 1, k) \o <<x>> \o SubSeq(front, k + 1, Len(front))

(* int(round(x)): Python rounds a half to the even neighbour *)
RoundHalfEven(p) ==
    LET lo == p.num \div p.den
        r == p.num - lo * p.den
    IN  IF 2 * r < p.den THEN lo
        ELSE IF 2 * r > p.den THEN lo + 1
        ELSE IF lo % 2 = 0 THEN lo ELSE lo + 1

(* offset_vertices = vertices[1:] + vertices[:1] *)
OffsetVertices(vs) ==
    IF vs = <<>> THEN <<>> ELSE Tail(vs) \o <<Head(vs)>>

(* a mutant of Crosses: both ends of the interval closed, "<=" for each "<" *)
CrossesClosed(v1, v2, scanline_y) ==
    \/ (v2[2] <= scanline_y /\ scanline_y <= v1[2])
    \/ (v1[2] <= scanline_y /\ scanline_y <= v2[2])

(* a mutant of Crosses: both ends of the interval open, "<" for each "<=" *)
CrossesOpen(v1, v2, scanline_y) ==
    \/ (v2[2] < scanline_y /\ scanline_y < v1[2])
    \/ (v1[2] < scanline_y /\ scanline_y < v2[2])

(* the condition under which an edge gives an intersection with a scanline *)
Crosses(v1, v2, scanline_y) ==
    \/ (v2[2] < scanline_y /\ scanline_y <= v1[2])
    \/ (v1[2] < scanline_y /\ scanline_y <= v2[2])

(* intersection_points of one scanline, in the order of the edges *)
IntersectionPoints(vs, scanline_y) ==
    LET offs == OffsetVertices(vs)
        edges == [i \in 1..Len(vs) |-> i]
        IsCrossing(i) == Crosses(vs[i], offs[i], scanline_y)
        crossing == SelectSeq(edges, IsCrossing)
    IN  [k \in 1..Len(crossing) |->
            interpolate_x(vs[crossing[k]], offs[crossing[k]], scanline_y)]

(* the pairs zip(intersection_points[::2], intersection_points[1::2]) and the
   pixels range(start_x, end_x + 1) of each *)
PairPixels(points, scanline_y) ==
    UNION {
        LET start_x == RoundHalfEven(points[2 * k - 1])
            end_x == RoundHalfEven(points[2 * k])
        IN  {<<x, scanline_y>> : x \in SetOf(Range(start_x, end_x + 1, 1))}
        : k \in 1..(Len(points) \div 2)}

(* the body of "for scanline_y in range(min_y, max_y + 1)" *)
ScanRow(vs, scanline_y) ==
    LET points == IntersectionPoints(vs, scanline_y)
    IN  IF \E k \in 1..Len(points) : points[k].raised
        THEN [raised |-> TRUE, points |-> points, pixels |-> {}]
        ELSE [raised |-> FALSE, points |-> SortAsc(points),
              pixels |-> PairPixels(SortAsc(points), scanline_y)]

MinY(vs) == CHOOSE y \in {vs[i][2] : i \in 1..Len(vs)} :
                \A i \in 1..Len(vs) : y <= vs[i][2]

MaxY(vs) == CHOOSE y \in {vs[i][2] : i \in 1..Len(vs)} :
                \A i \in 1..Len(vs) : y >= vs[i][2]

----------------------------------------------------------------------------
(* voxel_traversal_scanline_fill, with the call of scanline_fill inlined.
   f.pc: "edges" (the loop over the edges), "rows" (the loop of scanline_fill
   over the scanlines), "filled" (scanline_fill has returned), "done", "raise". *)

FillEntry ==
    [pc |-> "edges", i |-> 1, polygon_pixels |-> {}, off_boundary_pixels |-> {},
     scanline_y |-> 0, max_y |-> 0, filled_pixels |-> {}, intersection_points |-> <<>>]

(* zip(vertices, offset_vertices) *)
EdgePairs(vs) ==
    [i \in 1..Len(vs) |-> <<vs[i], OffsetVertices(vs)[i]>>]

(* the body of "for start_vertex, end_vertex in zip(vertices, offset_vertices)" *)
EdgeBody(s, vs) ==
    LET edge == EdgePairs(vs)[s.i]
        voxel_traversal_results == voxel_traversal_2d(edge[1], edge[2])
    IN  IF voxel_traversal_results.pc = "raise"
        THEN [s EXCEPT !.pc = "raise"]
        ELSE [s EXCEPT
                 !.polygon_pixels = s.polygon_pixels \cup SetOf(voxel_traversal_results.pixels),
                 !.off_boundary_pixels =
                     s.off_boundary_pixels \cup SetOf(voxel_traversal_results.off_diagonal_pixels),
                 !.i = s.i + 1]

(* a mutant of ScanEntry: an empty list of vertices is rejected with an error *)
ScanEntryRejectsEmpty(s, vs) ==
    IF vs = <<>>
    THEN [s EXCEPT !.pc = "raise"]
    ELSE IF Len(vs) = 1
    THEN [s EXCEPT !.pc = "filled", !.filled_pixels = SetOf(vs)]
    ELSE [s EXCEPT !.pc = "rows", !.filled_pixels = {},
                   !.scanline_y = MinY(vs), !.max_y = MaxY(vs)]

(* scanline_fill up to its loop: the two early returns, or min_y and max_y *)
ScanEntry(s, vs) ==
    IF vs = <<>>
    THEN [s EXCEPT !.pc = "filled", !.filled_pixels = {}]
    ELSE IF Len(vs) = 1
    THEN [s EXCEPT !.pc = "filled", !.filled_pixels = SetOf(vs)]
    ELSE [s EXCEPT !.pc = "rows", !.filled_pixels = {},
                   !.scanline_y = MinY(vs), !.max_y = MaxY(vs)]

(* a mutant of RowBody: filled_pixels is overwritten by the row, not updated *)
RowBodyOverwrites(s, vs) ==
    LET row == ScanRow(vs, s.scanline_y)
    IN  [s EXCEPT !.filled_pixels = row.pixels,
                  !.intersection_points = row.points,
                  !.scanline_y = s.scanline_y + 1]

(* one scanline of scanline_fill *)
RowBody(s, vs) ==
    LET row == ScanRow(vs, s.scanline_y)
    IN  IF row.raised
        THEN [s EXCEPT !.pc = "raise"]
        ELSE [s EXCEPT !.filled_pixels = s.filled_pixels \cup row.pixels,
                       !.intersection_points = row.points,
                       !.scanline_y = s.scanline_y + 1]

(* a mutant of MergeAndSubtract: the subtraction done before the interior is added *)
SubtractThenMerge(s) ==
    [s EXCEPT !.pc = "done",
              !.polygon_pixels = s.polygon_pixels \cup s.filled_pixels,
              !.off_boundary_pixels = s.off_boundary_pixels \ s.polygon_pixels]

(* polygon_pixels.update(scanline_fill(...)), then
   off_boundary_pixels = off_boundary_pixels - polygon_pixels, and the return *)
MergeAndSubtract(s) ==
    LET polygon_pixels == s.polygon_pixels \cup s.filled_pixels
    IN  [s EXCEPT !.pc = "done",
                  !.polygon_pixels = polygon_pixels,
                  !.off_boundary_pixels = s.off_boundary_pixels \ polygon_pixels]

InEdges(s, vs) == s.pc = "edges" /\ s.i <= Len(EdgePairs(vs))

AtScanEntry(s, vs) == s.pc = "edges" /\ s.i > Len(EdgePairs(vs))

InRows(s) == s.pc = "rows" /\ s.scanline_y <= s.max_y

AtReturn(s) == s.pc = "filled" \/ (s.pc = "rows" /\ s.scanline_y > s.max_y)

(* the whole call, as a function of its argument *)
RECURSIVE RunFill(_, _)
RunFill(s, vs) ==
    IF InEdges(s, vs) THEN RunFill(EdgeBody(s, vs), vs)
    ELSE IF AtScanEntry(s, vs) THEN RunFill(ScanEntry(s, vs), vs)
    ELSE IF InRows(s) THEN RunFill(RowBody(s, vs), vs)
    ELSE IF AtReturn(s) THEN MergeAndSubtract(s)
    ELSE s

voxel_traversal_scanline_fill(vs) == RunFill(FillEntry, vs)

(* scanline_fill as a function of its argument *)
scanline_fill(vs) ==
    IF vs = <<>> THEN {}
    ELSE IF Len(vs) = 1 THEN SetOf(vs)
    ELSE UNION {ScanRow(vs, y).pixels : y \in SetOf(Range(MinY(vs), MaxY(vs) + 1, 1))}

----------------------------------------------------------------------------
(* fast_polygon_fill.

   vertices_df is [has_id |-> whether the table has a column besides x, y and
   the subpolygon id, rows |-> its rows]; a row is [x, y, sub, id].  A row of a
   returned table is <<x, y, id>> when has_unique_id_col, <<x, y>> otherwise.
   The one column a table can have besides x, y and the subpolygon id is named
   "id".  b.unique_id_col is the local unique_id_col, b.schema the columns of
   the returned tables.
   b.pc: "start", "groups" (the loop over polygon_ids), "done", "raise". *)

(* unique(maintain_order=True): the first occurrence of each element *)
UniqueSeq(seq) ==
    LET IsFirst(i) == \A j \in 1..(i - 1) : seq[j] # seq[i]
        firsts == SelectSeq([i \in 1..Len(seq) |-> i], IsFirst)
    IN  [k \in 1..Len(firsts) |-> seq[firsts[k]]]

(* polygon_ids = vertices_df.select(id_cols).unique(maintain_order=True).rows() *)
PolygonIds(rows) ==
    UniqueSeq([i \in 1..Len(rows) |-> <<rows[i].sub, rows[i].id>>])

(* poly_vertices = vertices_df.filter(filter_expr).unique(maintain_order=True),
   and the list of its (x, y) *)
PolyVertices(rows, polygon_id) ==
    LET IsOfPolygon(r) == r.sub = polygon_id[1] /\ r.id = polygon_id[2]
        poly_vertices == UniqueSeq(SelectSeq(rows, IsOfPolygon))
    IN  [i \in 1..Len(poly_vertices) |-> <<poly_vertices[i].x, poly_vertices[i].y>>]

BatchIdle ==
    [pc |-> "start", unique_id_col |-> "None", has_unique_id_col |-> FALSE,
     polygon_ids |-> <<>>, k |-> 1,
     tiles_in_geom |-> {}, tiles_off_boundary |-> {}, schema |-> <<>>]

(* list(set(vertices_df.columns) - set(complement_cols)) *)
OtherColumns(df) == IF df.has_id THEN <<"id">> ELSE <<>>

(* a mutant of BatchEntry: has_unique_id_col is True in both branches *)
BatchEntryAlwaysTagged(s, df, col) ==
    IF ~df.has_id
    THEN [s EXCEPT !.pc = "raise"]
    ELSE [s EXCEPT !.pc = "groups",
                   !.unique_id_col = IF col # "None" THEN col ELSE OtherColumns(df)[1],
                   !.has_unique_id_col = TRUE,
                   !.polygon_ids = PolygonIds(df.rows),
                   !.k = 1]

(* a mutant of BatchEntry: the assertions left out, a table without the column
   grouped by the subpolygon id alone *)
BatchEntryUnasserted(s, df, col) ==
    [s EXCEPT !.pc = "groups",
              !.unique_id_col = col,
              !.has_unique_id_col = (col # "None"),
              !.polygon_ids = PolygonIds(df.rows),
              !.k = 1]

(* from the entry to the loop: id_cols, the assertions, polygon_ids *)
BatchEntry(s, df, col) ==
    IF col = "None" /\ Len(OtherColumns(df)) # 1
    THEN [s EXCEPT !.pc = "raise"]
    ELSE IF col # "None" /\ col \notin SetOf(OtherColumns(df))
    THEN [s EXCEPT !.pc = "raise"]
    ELSE [s EXCEPT !.pc = "groups",
                   !.unique_id_col = IF col # "None" THEN col ELSE OtherColumns(df)[1],
                   !.has_unique_id_col = (col # "None"),
                   !.polygon_ids = PolygonIds(df.rows),
                   !.k = 1]

(* [(x, y, unique_id) for (x, y) in pixels] when has_unique_id_col *)
Tagged(pixels, has_unique_id_col, unique_id) ==
    IF has_unique_id_col
    THEN {<<c[1], c[2], unique_id>> : c \in pixels}
    ELSE pixels

(* a mutant of GroupBody: tiles_off_boundary is assigned the group's candidates,
   not updated with them *)
GroupBodyOverwrites(s, df) ==
    LET polygon_id == s.polygon_ids[s.k]
        unique_id == polygon_id[2]
        voxel_traversal_results ==
            voxel_traversal_scanline_fill(PolyVertices(df.rows, polygon_id))
    IN  [s EXCEPT
            !.tiles_in_geom =
                s.tiles_in_geom
                    \cup Tagged(voxel_traversal_results.polygon_pixels,
                                s.has_unique_id_col, unique_id),
            !.tiles_off_boundary =
                Tagged(voxel_traversal_results.off_boundary_pixels,
                       s.has_unique_id_col, unique_id),
            !.k = s.k + 1]

(* the body of "for polygon_id in polygon_ids" *)
GroupBody(s, df) ==
    LET polygon_id == s.polygon_ids[s.k]
        unique_id == polygon_id[2]
        voxel_traversal_results ==
            voxel_traversal_scanline_fill(PolyVertices(df.rows, polygon_id))
    IN  IF voxel_traversal_results.pc = "raise"
        THEN [s EXCEPT !.pc = "raise"]
        ELSE [s EXCEPT
                 !.tiles_in_geom =
                     s.tiles_in_geom
                         \cup Tagged(voxel_traversal_results.polygon_pixels,
                                     s.has_unique_id_col, unique_id),
                 !.tiles_off_boundary =
                     s.tiles_off_boundary
                         \cup Tagged(voxel_traversal_results.off_boundary_pixels,
                                     s.has_unique_id_col, unique_id),
                 !.k = s.k + 1]

(* schema = {"x": PIXEL_DTYPE, "y": PIXEL_DTYPE}, and the identifier column when
   has_unique_id_col *)
Schema(s) ==
    IF s.has_unique_id_col THEN <<"x", "y", s.unique_id_col>> ELSE <<"x", "y">>

(* a mutant of FinalSubtract: the subtraction left out *)
FinalSubtractSkipped(s) == [s EXCEPT !.pc = "done", !.schema = Schema(s)]

(* a mutant of FinalSubtract: a candidate is dropped when its cell (x, y) is a
   cell of tiles_in_geom under any identifier *)
FinalSubtractByCell(s) ==
    [s EXCEPT !.pc = "done",
              !.schema = Schema(s),
              !.tiles_off_boundary =
                  {r \in s.tiles_off_boundary :
                      \A t \in s.tiles_in_geom : <<t[1], t[2]>> # <<r[1], r[2]>>}]

(* tiles_off_boundary = tiles_off_boundary - tiles_in_geom, and the return of the
   two tables *)
FinalSubtract(s) ==
    [s EXCEPT !.pc = "done",
              !.schema = Schema(s),
              !.tiles_off_boundary = s.tiles_off_boundary \ s.tiles_in_geom]

InGroups(s) == s.pc = "groups" /\ s.k <= Len(s.polygon_ids)

AfterGroups(s) == s.pc = "groups" /\ s.k > Len(s.polygon_ids)

(* the whole call, as a function of its arguments *)
RECURSIVE RunBatch(_, _, _)
RunBatch(s, df, col) ==
    IF s.pc = "start" THEN RunBatch(BatchEntry(s, df, col), df, col)
    ELSE IF InGroups(s) THEN RunBatch(GroupBody(s, df), df, col)
    ELSE IF AfterGroups(s) THEN FinalSubtract(s)
    ELSE s

fast_polygon_fill(df, col) == RunBatch(BatchIdle, df, col)

----------------------------------------------------------------------------
(* polygons_to_vertices.

   polys_gdf is the list of the source polygons, each [index, id, geometry]: its
   index value, its value in the identifier column, and its geometry, the list
   of its parts.  g.index is the index of polys_gdf after set_index or
   reset_index, g.exploded the exploded frame, one [index, sub, part] per part,
   g.vertices_df the returned table.
   g.pc: "start", "explode", "check", "emit", "done", "raise". *)

PrepIdle ==
    [pc |-> "start", unique_id_col |-> "None", index |-> <<>>, exploded |-> <<>>,
     vertices_df |-> [columns |-> <<>>, rows |-> <<>>]]

(* Series.duplicated().any() *)
Duplicated(values) ==
    \E i, j \in 1..Len(values) : i < j /\ values[i] = values[j]

(* a mutant of PrepValidate: the identifier column is made the index without the
   test for duplicates *)
PrepValidateUnchecked(s, gdf, col) ==
    IF col # "None"
    THEN [s EXCEPT !.pc = "explode", !.unique_id_col = col,
                   !.index = [i \in 1..Len(gdf) |-> gdf[i].id]]
    ELSE LET index == [i \in 1..Len(gdf) |-> gdf[i].index]
         IN  [s EXCEPT !.pc = "explode",
                       !.unique_id_col = "None",
                       !.index = IF Duplicated(index)
                                 THEN [i \in 1..Len(gdf) |-> i - 1]
                                 ELSE index]

(* "if unique_id_col is not None": the test for duplicates and set_index; else the
   reset of an index that is not unique, and unique_id_col = polys_gdf.index.name,
   which is None for the frames of the model *)
PrepValidate(s, gdf, col) ==
    IF col # "None"
    THEN LET ids == [i \in 1..Len(gdf) |-> gdf[i].id]
         IN  IF Duplicated(ids)
             THEN [s EXCEPT !.pc = "raise"]
             ELSE [s EXCEPT !.pc = "explode", !.unique_id_col = col, !.index = ids]
    ELSE LET index == [i \in 1..Len(gdf) |-> gdf[i].index]
         IN  [s EXCEPT !.pc = "explode",
                       !.unique_id_col = "None",
                       !.index = IF Duplicated(index)
                                 THEN [i \in 1..Len(gdf) |-> i - 1]
                                 ELSE index]

(* explode(index_parts=True): one row for each part, in order, with the index of
   its source polygon and the number of the part within it *)
RECURSIVE Explode(_, _, _)
Explode(gdf, index, i) ==
    IF i > Len(gdf)
    THEN <<>>
    ELSE [j \in 1..Len(gdf[i].geometry) |->
             [index |-> index[i], sub |-> j - 1, part |-> gdf[i].geometry[j]]]
         \o Explode(gdf, index, i + 1)

PrepExplode(s, gdf) ==
    [s EXCEPT !.pc = "check", !.exploded = Explode(gdf, s.index, 1)]

(* is_poly_bool = polys_gdf.type == "Polygon", and the raise unless all are *)
PrepTypeCheck(s) ==
    IF \A k \in 1..Len(s.exploded) : s.exploded[k].part.type = "Polygon"
    THEN [s EXCEPT !.pc = "emit"]
    ELSE [s EXCEPT !.pc = "raise"]

(* get_coordinates().reset_index(): one row for each coordinate of each part *)
RECURSIVE GetCoordinates(_, _)
GetCoordinates(exploded, k) ==
    IF k > Len(exploded)
    THEN <<>>
    ELSE [n \in 1..Len(exploded[k].part.coords) |->
             [x |-> exploded[k].part.coords[n][1],
              y |-> exploded[k].part.coords[n][2],
              sub |-> exploded[k].sub,
              id |-> exploded[k].index]]
         \o GetCoordinates(exploded, k + 1)

(* the names of the index levels as columns: reset_index names a level without a
   name by its position *)
PrepColumns(col) ==
    <<IF col = "None" THEN "level_0" ELSE col,
      "__subpolygon_id__", "x", "y">>

(* index.names, get_coordinates, from_pandas and the return *)
PrepEmit(s) ==
    [s EXCEPT !.pc = "done",
              !.vertices_df = [columns |-> PrepColumns(s.unique_id_col),
                               rows |-> GetCoordinates(s.exploded, 1)]]

(* the whole call, as a function of its arguments *)
RECURSIVE RunPrep(_, _, _)
RunPrep(s, gdf, col) ==
    IF s.pc = "start" THEN RunPrep(PrepValidate(s, gdf, col), gdf, col)
    ELSE IF s.pc = "explode" THEN RunPrep(PrepExplode(s, gdf), gdf, col)
    ELSE IF s.pc = "check" THEN RunPrep(PrepTypeCheck(s), gdf, col)
    ELSE IF s.pc = "emit" THEN PrepEmit(s)
    ELSE s

polygons_to_vertices(gdf, col) == RunPrep(PrepIdle, gdf, col)

----------------------------------------------------------------------------
(* The walker as a state machine: one call of voxel_traversal_2d. *)

PrepNotCalled ==
    /\ polys_gdf = <<>>
    /\ gdf_unique_id_col = "None"
    /\ g = PrepIdle

BatchNotCalled ==
    /\ vertices_df = [has_id |-> TRUE, rows |-> <<>>]
    /\ unique_id_col = "None"
    /\ b = BatchIdle

WalkInit ==
    /\ start_vertex \in WalkPoints
    /\ end_vertex \in WalkPoints
    /\ w = WalkIdle
    /\ vertices = <<>>
    /\ f = FillEntry
    /\ BatchNotCalled
    /\ PrepNotCalled

WalkSinglePoint ==
    /\ w.pc = "start"
    /\ start_vertex[1] = end_vertex[1] /\ start_vertex[2] = end_vertex[2]
    /\ w' = WalkReturn(w, SinglePointLine(start_vertex, end_vertex), <<>>)
    /\ UNCHANGED <<start_vertex, end_vertex, vertices, f, vertices_df, unique_id_col, b,
                 polys_gdf, gdf_unique_id_col, g>>

WalkVertical ==
    /\ w.pc = "start"
    /\ ~(start_vertex[1] = end_vertex[1] /\ start_vertex[2] = end_vertex[2])
    /\ start_vertex[1] = end_vertex[1]
    /\ w' = WalkReturn(w, VerticalLine(start_vertex, end_vertex), <<>>)
    /\ UNCHANGED <<start_vertex, end_vertex, vertices, f, vertices_df, unique_id_col, b,
                 polys_gdf, gdf_unique_id_col, g>>

WalkHorizontal ==
    /\ w.pc = "start"
    /\ start_vertex[1] # end_vertex[1]
    /\ start_vertex[2] = end_vertex[2]
    /\ w' = WalkReturn(w, HorizontalLine(start_vertex, end_vertex), <<>>)
    /\ UNCHANGED <<start_vertex, end_vertex, vertices, f, vertices_df, unique_id_col, b,
                 polys_gdf, gdf_unique_id_col, g>>

WalkGeneral ==
    /\ w.pc = "start"
    /\ start_vertex[1] # end_vertex[1]
    /\ start_vertex[2] # end_vertex[2]
    /\ w' = WalkSetup(start_vertex, end_vertex)
    /\ UNCHANGED <<start_vertex, end_vertex, vertices, f, vertices_df, unique_id_col, b,
                 polys_gdf, gdf_unique_id_col, g>>

WalkLoop ==
    /\ w.pc = "loop"
    /\ w' = LoopBody(w, start_vertex, end_vertex)
    /\ UNCHANGED <<start_vertex, end_vertex, vertices, f, vertices_df, unique_id_col, b,
                 polys_gdf, gdf_unique_id_col, g>>

WalkNext ==
    \/ WalkSinglePoint
    \/ WalkVertical
    \/ WalkHorizontal
    \/ WalkGeneral
    \/ WalkLoop

SpecWalk == WalkInit /\ [][WalkNext]_vars

(* the loop is run to its end: the interpreter does not stop in mid-call *)
FairSpecWalk == SpecWalk /\ WF_vars(WalkNext)

----------------------------------------------------------------------------
(* The rasterizer as a state machine: one call of voxel_traversal_scanline_fill. *)

FillIdleWalker ==
    /\ start_vertex = <<0, 0>>
    /\ end_vertex = <<0, 0>>
    /\ w = WalkIdle

FillInit ==
    /\ FillIdleWalker
    /\ BatchNotCalled
    /\ PrepNotCalled
    /\ vertices \in Rings
    /\ f = FillEntry

FillEdge ==
    /\ InEdges(f, vertices)
    /\ f' = EdgeBody(f, vertices)
    /\ UNCHANGED <<start_vertex, end_vertex, w, vertices, vertices_df, unique_id_col, b,
                 polys_gdf, gdf_unique_id_col, g>>

FillScanEntry ==
    /\ AtScanEntry(f, vertices)
    /\ f' = ScanEntry(f, vertices)
    /\ UNCHANGED <<start_vertex, end_vertex, w, vertices, vertices_df, unique_id_col, b,
                 polys_gdf, gdf_unique_id_col, g>>

FillScanRow ==
    /\ InRows(f)
    /\ f' = RowBody(f, vertices)
    /\ UNCHANGED <<start_vertex, end_vertex, w, vertices, vertices_df, unique_id_col, b,
                 polys_gdf, gdf_unique_id_col, g>>

FillReturn ==
    /\ AtReturn(f)
    /\ f' = MergeAndSubtract(f)
    /\ UNCHANGED <<start_vertex, end_vertex, w, vertices, vertices_df, unique_id_col, b,
                 polys_gdf, gdf_unique_id_col, g>>

FillNext ==
    \/ FillEdge
    \/ FillScanEntry
    \/ FillScanRow
    \/ FillReturn

SpecFill == FillInit /\ [][FillNext]_vars

(* the axis-aligned rectangle ring [(x0,y0),(x0,y1),(x1,y1),(x1,y0)] *)
Rectangle(x0, y0, x1, y1) == << <<x0, y0>>, <<x0, y1>>, <<x1, y1>>, <<x1, y0>> >>

RectInit ==
    /\ FillIdleWalker
    /\ BatchNotCalled
    /\ PrepNotCalled
    /\ \E x0, x1, y0, y1 \in 0..RectMax :
          /\ x0 < x1
          /\ y0 < y1
          /\ vertices = Rectangle(x0, y0, x1, y1)
    /\ f = FillEntry

SpecRect == RectInit /\ [][FillNext]_vars

----------------------------------------------------------------------------
(* The batch driver as a state machine: one call of fast_polygon_fill. *)

BatchInit ==
    /\ FillIdleWalker
    /\ vertices = <<>>
    /\ f = FillEntry
    /\ vertices_df \in [has_id : BOOLEAN, rows : Tables]
    /\ unique_id_col \in {"None", "id"}
    /\ b = BatchIdle
    /\ PrepNotCalled

BatchCall ==
    /\ b.pc = "start"
    /\ b' = BatchEntry(b, vertices_df, unique_id_col)
    /\ UNCHANGED <<start_vertex, end_vertex, w, vertices, f, vertices_df, unique_id_col,
                 polys_gdf, gdf_unique_id_col, g>>

BatchGroup ==
    /\ InGroups(b)
    /\ b' = GroupBody(b, vertices_df)
    /\ UNCHANGED <<start_vertex, end_vertex, w, vertices, f, vertices_df, unique_id_col,
                 polys_gdf, gdf_unique_id_col, g>>

BatchReturn ==
    /\ AfterGroups(b)
    /\ b' = FinalSubtract(b)
    /\ UNCHANGED <<start_vertex, end_vertex, w, vertices, f, vertices_df, unique_id_col,
                 polys_gdf, gdf_unique_id_col, g>>

BatchNext ==
    \/ BatchCall
    \/ BatchGroup
    \/ BatchReturn

SpecBatch == BatchInit /\ [][BatchNext]_vars

----------------------------------------------------------------------------
(* The preprocessing as a state machine: one call of polygons_to_vertices. *)

PrepInit ==
    /\ FillIdleWalker
    /\ vertices = <<>>
    /\ f = FillEntry
    /\ BatchNotCalled
    /\ polys_gdf \in GeoDataFrames
    /\ gdf_unique_id_col \in {"None", "id"}
    /\ g = PrepIdle

PrepCall ==
    /\ g.pc = "start"
    /\ g' = PrepValidate(g, polys_gdf, gdf_unique_id_col)
    /\ UNCHANGED <<start_vertex, end_vertex, w, vertices, f, vertices_df, unique_id_col, b,
                   polys_gdf, gdf_unique_id_col>>

PrepExplodeParts ==
    /\ g.pc = "explode"
    /\ g' = PrepExplode(g, polys_gdf)
    /\ UNCHANGED <<start_vertex, end_vertex, w, vertices, f, vertices_df, unique_id_col, b,
                   polys_gdf, gdf_unique_id_col>>

PrepCheckTypes ==
    /\ g.pc = "check"
    /\ g' = PrepTypeCheck(g)
    /\ UNCHANGED <<start_vertex, end_vertex, w, vertices, f, vertices_df, unique_id_col, b,
                   polys_gdf, gdf_unique_id_col>>

PrepReturn ==
    /\ g.pc = "emit"
    /\ g' = PrepEmit(g)
    /\ UNCHANGED <<start_vertex, end_vertex, w, vertices, f, vertices_df, unique_id_col, b,
                   polys_gdf, gdf_unique_id_col>>

PrepNext ==
    \/ PrepCall
    \/ PrepExplodeParts
    \/ PrepCheckTypes
    \/ PrepReturn

SpecPrep == PrepInit /\ [][PrepNext]_vars

----------------------------------------------------------------------------
(* Properties of polygons_to_vertices *)

(* an identifier column is supplied and two source polygons share a value in it *)
DuplicateIds ==
    /\ gdf_unique_id_col # "None"
    /\ \E i, j \in 1..Len(polys_gdf) : i # j /\ polys_gdf[i].id = polys_gdf[j].id

(* C11: when an identifier column is supplied and two source polygons share an
   identifier, the first step of the preprocessing raises the input error: no
   geometry is exploded, the identifiers are not made the index, no vertex table
   is produced or returned, and the batch driver has nothing to run on. *)
C11_DuplicateIdsRejected ==
    /\ [](DuplicateIds =>
            /\ g.pc \in {"start", "raise"}
            /\ g.exploded = <<>>
            /\ g.index = <<>>
            /\ g.vertices_df = PrepIdle.vertices_df
            /\ b = BatchIdle)
    /\ [][(DuplicateIds /\ g.pc = "start") => g'.pc = "raise"]_vars
    /\ [](DuplicateIds => polygons_to_vertices(polys_gdf, gdf_unique_id_col).pc = "raise")

(* the call has failed on two polygons of one identifier and distinct index
   values, one of them of two parts *)
C11_Witness ==
    /\ DuplicateIds
    /\ g.pc = "raise"
    /\ Len(polys_gdf) = 2
    /\ polys_gdf[1].index # polys_gdf[2].index
    /\ Len(polys_gdf[1].geometry) = 2

----------------------------------------------------------------------------
(* Properties of fast_polygon_fill *)

(* the polygon groups of the table, and the Rasterization Result of each *)
Groups == {<<vertices_df.rows[i].sub, vertices_df.rows[i].id>> :
              i \in 1..Len(vertices_df.rows)}

GroupResult(key) ==
    voxel_traversal_scanline_fill(PolyVertices(vertices_df.rows, key))

Cell(row) == <<row[1], row[2]>>

BatchDone == b.pc = "done"

(* C1: when the call has returned, no row of tiles_off_boundary is a row of
   tiles_in_geom, with or without identifiers. *)
C1_OffBoundaryDisjoint ==
    BatchDone => b.tiles_off_boundary \cap b.tiles_in_geom = {}

(* a batch has returned some off-boundary rows, after the final subtraction took
   out a candidate of one group that no subtraction within its group took out *)
C1_Witness ==
    /\ BatchDone
    /\ b.tiles_off_boundary # {}
    /\ \E key \in Groups :
          Tagged(GroupResult(key).off_boundary_pixels, b.has_unique_id_col, key[2])
              \cap b.tiles_in_geom # {}

(* C2, as stated: with or without identifiers, a cell that is an ambiguous cell
   of one group and a polygon cell of another group is the cell of no row of the
   returned tiles_off_boundary. *)
C2_CrossPolygonCellAbsent ==
    BatchDone =>
        \A k1, k2 \in Groups :
            k1 # k2 =>
                \A c \in GroupResult(k1).off_boundary_pixels
                            \cap GroupResult(k2).polygon_pixels :
                    \A row \in b.tiles_off_boundary : Cell(row) # c

(* C2, amended: a cell that is an ambiguous cell of one group and a polygon cell
   of another group is the cell of no row of the returned tiles_off_boundary
   when no identifier column is supplied; when one is supplied and the two
   groups carry the same identifier, the row of that cell with that identifier
   is not in tiles_off_boundary. *)
C2_CrossPolygonRowAbsent ==
    BatchDone =>
        \A k1, k2 \in Groups :
            k1 # k2 =>
                \A c \in GroupResult(k1).off_boundary_pixels
                            \cap GroupResult(k2).polygon_pixels :
                    IF b.has_unique_id_col
                    THEN k1[2] = k2[2] => <<c[1], c[2], k1[2]>> \notin b.tiles_off_boundary
                    ELSE c \notin b.tiles_off_boundary

(* two parts of one identified polygon have been processed, and a cell ambiguous
   for one part is a polygon cell of the other *)
C2_Witness ==
    /\ BatchDone
    /\ b.has_unique_id_col
    /\ \E k1, k2 \in Groups :
          /\ k1 # k2
          /\ k1[2] = k2[2]
          /\ GroupResult(k1).off_boundary_pixels \cap GroupResult(k2).polygon_pixels # {}

(* C12, as stated: each returned table has the identifier column exactly when the
   input vertex table has one; otherwise its rows are (x, y) only. *)
C12_ColumnIffOnInput ==
    BatchDone =>
        /\ ("id" \in SetOf(b.schema)) <=> ("id" \in SetOf(OtherColumns(vertices_df)))
        /\ ("id" \notin SetOf(OtherColumns(vertices_df))) =>
              \A row \in b.tiles_in_geom \cup b.tiles_off_boundary : Len(row) = 2

(* C12, amended: each returned table has the identifier column exactly when an
   identifier column name is supplied to the call; its rows are then (x, y, id)
   with id an identifier of the input table, and (x, y) only when no name is
   supplied, although the input table of a call that returns always has the
   column. *)
C12_ColumnIffNameSupplied ==
    BatchDone =>
        /\ "id" \in SetOf(OtherColumns(vertices_df))
        /\ b.schema = IF unique_id_col # "None"
                      THEN <<"x", "y", unique_id_col>> ELSE <<"x", "y">>
        /\ \A row \in b.tiles_in_geom \cup b.tiles_off_boundary :
              /\ Len(row) = Len(b.schema)
              /\ unique_id_col # "None" => \E key \in Groups : row[3] = key[2]

(* a call without a column name on a table that has the identifier column has
   returned rows of two coordinates *)
C12_Witness ==
    /\ BatchDone
    /\ unique_id_col = "None"
    /\ "id" \in SetOf(OtherColumns(vertices_df))
    /\ b.schema = <<"x", "y">>
    /\ \E row \in b.tiles_in_geom : Len(row) = 2

(* the table has only the columns x, y and the subpolygon id, and no column name
   is supplied *)
BareCall == ~vertices_df.has_id /\ unique_id_col = "None"

(* C13, as stated: a call without a column name on a table whose only columns are
   x, y and the subpolygon id does not fail, and goes on to its groups and to the
   return of two untagged tables. *)
C13_BareTableAccepted ==
    /\ [](BareCall => b.pc # "raise")
    /\ [][(BareCall /\ b.pc = "start") => b'.pc = "groups"]_vars

(* C13, amended: a call without a column name fails its assertion, before any
   group is rasterized and without a returned table, on a table whose only
   columns are x, y and the subpolygon id; on a table with one more column it goes
   on to its groups and returns two untagged tables. *)
C13_BareTableRejected ==
    /\ [](BareCall =>
            /\ b.pc \in {"start", "raise"}
            /\ b.tiles_in_geom = {} /\ b.tiles_off_boundary = {}
            /\ b.schema = <<>>)
    /\ [][(BareCall /\ b.pc = "start") => b'.pc = "raise"]_vars
    /\ [][(unique_id_col = "None" /\ vertices_df.has_id /\ b.pc = "start") =>
            (b'.pc = "groups" /\ ~b'.has_unique_id_col)]_vars
    /\ []((unique_id_col = "None" /\ BatchDone) =>
            (vertices_df.has_id /\ b.schema = <<"x", "y">>))

(* the call without a column name on a table of several rows and no other column
   has failed *)
C13_Witness ==
    BareCall /\ b.pc = "raise" /\ Len(vertices_df.rows) >= 2

(* the orders in which the groups of the call can be taken *)
Orders(ids) == {o \in [1..Len(ids) -> SetOf(ids)] : SetOf(o) = SetOf(ids)}

(* the call with its groups taken in the order o *)
BatchInOrder(o) ==
    RunBatch([BatchEntry(BatchIdle, vertices_df, unique_id_col) EXCEPT !.polygon_ids = o],
             vertices_df, unique_id_col)

(* C16: the two returned tables do not depend on the order in which the groups
   are processed: tiles_in_geom is the union over the groups of each group's
   polygon cells, computed from that group's vertices alone, tiles_off_boundary
   the union of each group's candidates minus tiles_in_geom, and the call with
   its groups taken in any other order returns the same two tables. *)
C16_GroupOrderIrrelevant ==
    BatchDone =>
        /\ b.tiles_in_geom =
              UNION {Tagged(GroupResult(key).polygon_pixels, b.has_unique_id_col, key[2]) :
                        key \in Groups}
        /\ b.tiles_off_boundary =
              UNION {Tagged(GroupResult(key).off_boundary_pixels, b.has_unique_id_col, key[2]) :
                        key \in Groups} \ b.tiles_in_geom
        /\ \A o \in Orders(b.polygon_ids) :
              /\ BatchInOrder(o).pc = "done"
              /\ BatchInOrder(o).tiles_in_geom = b.tiles_in_geom
              /\ BatchInOrder(o).tiles_off_boundary = b.tiles_off_boundary

(* a batch of two groups has returned: a candidate of its first group is a
   polygon cell of its second group and was taken out, and another candidate of
   the first group is among the returned off-boundary rows *)
C16_Witness ==
    /\ BatchDone
    /\ Len(b.polygon_ids) = 2
    /\ LET first == Tagged(GroupResult(b.polygon_ids[1]).off_boundary_pixels,
                           b.has_unique_id_col, b.polygon_ids[1][2])
           second == Tagged(GroupResult(b.polygon_ids[2]).polygon_pixels,
                            b.has_unique_id_col, b.polygon_ids[2][2])
       IN  /\ first \cap second # {}
           /\ first \cap b.tiles_off_boundary # {}

(* the table with only the rows of one identifier: that polygon alone *)
Alone(id) ==
    LET HasId(r) == r.id = id
    IN  [vertices_df EXCEPT !.rows = SelectSeq(vertices_df.rows, HasId)]

RowsOfId(tiles, id) == {row \in tiles : row[3] = id}

(* C10: with an identifier column supplied, the rows of tiles_in_geom and of
   tiles_off_boundary that carry an identifier are those of the call on that
   polygon alone; without one, every row of tiles_in_geom of the call on a
   polygon alone is a row of the batch's tiles_in_geom. *)
C10_PolygonAloneAgrees ==
    BatchDone =>
        \A id \in BatchIds :
            LET alone == fast_polygon_fill(Alone(id), unique_id_col)
            IN  IF b.has_unique_id_col
                THEN /\ RowsOfId(b.tiles_in_geom, id) = alone.tiles_in_geom
                     /\ RowsOfId(b.tiles_off_boundary, id) = alone.tiles_off_boundary
                ELSE alone.tiles_in_geom \subseteq b.tiles_in_geom

(* a batch of two identified polygons has returned: a cell is ambiguous for one
   of them, stays so in the batch, and is a polygon cell of the other *)
C10_Witness ==
    /\ BatchDone
    /\ b.has_unique_id_col
    /\ \E row \in b.tiles_off_boundary :
          \E other \in b.tiles_in_geom : Cell(other) = Cell(row) /\ other[3] # row[3]

----------------------------------------------------------------------------
(* Properties of scanline_fill and voxel_traversal_scanline_fill *)

(* the vertex after vertex i of the ring, the first one after the last *)
NextVertex(i) == vertices[(i % Len(vertices)) + 1]

(* the line cells, and the off-diagonal cells, of all the edges of the ring *)
AllLineCells ==
    UNION {SetOf(voxel_traversal_2d(vertices[i], NextVertex(i)).pixels) :
              i \in 1..Len(vertices)}

AllOffDiagonalCells ==
    UNION {SetOf(voxel_traversal_2d(vertices[i], NextVertex(i)).off_diagonal_pixels) :
              i \in 1..Len(vertices)}

(* C3: the call returns polygon_pixels = the line cells of every consecutive
   vertex pair, the pair (last, first) included, together with the scanline fill
   of the ring; and off_boundary_pixels = the off-diagonal cells of all the edges
   minus that polygon_pixels; the two returned sets are disjoint. *)
C3_RasterizerResult ==
    f.pc = "done" =>
        /\ f.polygon_pixels = AllLineCells \cup scanline_fill(vertices)
        /\ f.off_boundary_pixels = AllOffDiagonalCells \ f.polygon_pixels
        /\ f.polygon_pixels \cap f.off_boundary_pixels = {}

(* a triangle has been rasterized: some off-diagonal cells were kept and some
   were taken out as cells of the polygon, one of them a cell of the interior
   fill alone *)
C3_Witness ==
    /\ f.pc = "done"
    /\ Len(vertices) = 3
    /\ f.off_boundary_pixels # {}
    /\ (AllOffDiagonalCells \cap scanline_fill(vertices)) \ AllLineCells # {}

(* the intersections of the scanline y, one for each edge that crosses it *)
CrossingEdges(y) ==
    {i \in 1..Len(vertices) :
        \/ (NextVertex(i)[2] < y /\ y <= vertices[i][2])
        \/ (vertices[i][2] < y /\ y <= NextVertex(i)[2])}

Occurrences(seq, e) == Cardinality({k \in 1..Len(seq) : seq[k] = e})

(* C8: on each scanline y the intersection x-values are sorted ascending, and the
   cells filled in row y are exactly the cells (x, y) with x from round(lower) to
   round(upper), for the pairs (1st, 2nd), (3rd, 4th), ...; a last intersection
   without a partner gives no cell, and the row raises no error. *)
C8_RowSpans ==
    [][InRows(f) =>
        LET y == f.scanline_y
            pts == f'.intersection_points
        IN  /\ f'.pc = "rows"
            /\ f'.scanline_y = y + 1
            /\ Len(pts) = Cardinality(CrossingEdges(y))
            /\ \A i \in CrossingEdges(y) :
                  Occurrences(pts, interpolate_x(vertices[i], NextVertex(i), y))
                    = Cardinality({j \in CrossingEdges(y) :
                          interpolate_x(vertices[j], NextVertex(j), y)
                            = interpolate_x(vertices[i], NextVertex(i), y)})
            /\ \A i, j \in 1..Len(pts) :
                  i < j => pts[i].num * pts[j].den <= pts[j].num * pts[i].den
            /\ {c \in f'.filled_pixels : c[2] = y}
                 = {<<x, y>> : x \in
                      UNION {RoundHalfEven(pts[2 * k - 1])..RoundHalfEven(pts[2 * k]) :
                                k \in 1..(Len(pts) \div 2)}}
            /\ {c \in f'.filled_pixels : c[2] # y} = f.filled_pixels
      ]_vars

(* a scanline has been filled between two intersections that the edges give in
   descending order, the lower of them a half that rounds to the even cell *)
C8_Witness ==
    /\ f.pc = "rows"
    /\ Len(f.intersection_points) = 2
    /\ 2 * f.intersection_points[1].num = f.intersection_points[1].den
    /\ {<<0, f.scanline_y - 1>>, <<1, f.scanline_y - 1>>, <<2, f.scanline_y - 1>>}
         \subseteq f.filled_pixels
    /\ IntersectionPoints(vertices, f.scanline_y - 1) # f.intersection_points

(* the edges of the ring that lie on one row, the wrap edge included *)
HorizontalEdges == {i \in 1..Len(vertices) : vertices[i][2] = NextVertex(i)[2]}

(* C15: an edge (p, q) gives an intersection at the scanline y exactly when
   q.y < y <= p.y or p.y < y <= q.y: the row has one intersection for each such
   edge and none for any other; a horizontal edge never gives one; interpolate_x
   is never called with equal y values, so every intersection is a quotient by a
   non-zero dy and neither a row nor the call raises. *)
C15_HorizontalNeverCrosses ==
    /\ [][InRows(f) =>
            LET y == f.scanline_y
                given == {i \in 1..Len(vertices) :
                             Crosses(vertices[i], NextVertex(i), y)}
            IN  /\ given = CrossingEdges(y)
                /\ given \cap HorizontalEdges = {}
                /\ \A i \in given :
                      ~interpolate_x(vertices[i], NextVertex(i), y).raised
                /\ f'.pc = "rows"
                /\ Len(f'.intersection_points) = Cardinality(CrossingEdges(y))
                /\ \A k \in 1..Len(f'.intersection_points) :
                      /\ ~f'.intersection_points[k].raised
                      /\ f'.intersection_points[k].den > 0
                      /\ \E i \in CrossingEdges(y) :
                            f'.intersection_points[k]
                              = interpolate_x(vertices[i], NextVertex(i), y)
       ]_vars
    /\ [](f.pc # "raise")

(* a scanline that carries a horizontal edge of the ring has been evaluated and
   has two distinct intersections, both of other edges *)
C15_Witness ==
    /\ f.pc = "rows"
    /\ \E i \in HorizontalEdges :
          /\ vertices[i][2] = f.scanline_y - 1
          /\ vertices[i][1] # NextVertex(i)[1]
    /\ Len(f.intersection_points) = 2
    /\ f.intersection_points[1] # f.intersection_points[2]

(* the scanlines looked at: every row of the grid and one row beyond each side *)
ScanYs == (0 - 1)..(TriMax + 1)

(* C18: for a ring of two vertices or more and any integer scanline, the number of
   edges (the wrap edge included) that give an intersection is even, so every
   evaluated row has an even number of intersections and none is left without a
   partner. *)
C18_EvenCrossings ==
    Len(vertices) >= 2 =>
        /\ \A y \in ScanYs : Len(IntersectionPoints(vertices, y)) % 2 = 0
        /\ \A y \in ScanYs : Cardinality(CrossingEdges(y)) % 2 = 0
        /\ f.pc = "rows" => Len(f.intersection_points) % 2 = 0

(* a row with four intersections has been evaluated, a vertex of the ring on it *)
C18_Witness ==
    /\ f.pc = "rows"
    /\ Len(f.intersection_points) = 4
    /\ \E i \in 1..Len(vertices) : vertices[i][2] = f.scanline_y - 1

(* C14, as stated: rasterizing a ring of no vertices fails with an error; the call
   does not return a result, empty or not. *)
C14_EmptyRingRaises ==
    /\ [](vertices = <<>> => f.pc # "done")
    /\ [][(vertices = <<>> /\ AtScanEntry(f, vertices)) => f'.pc = "raise"]_vars

(* C14, amended: rasterizing a ring of no vertices raises no error: no edge is
   walked, scanline_fill returns the empty set, and the call returns
   polygon_pixels and off_boundary_pixels both empty. *)
C14_EmptyRingIsEmptyResult ==
    /\ [](vertices = <<>> =>
            /\ f.pc # "raise"
            /\ f.polygon_pixels = {} /\ f.off_boundary_pixels = {}
            /\ f.filled_pixels = {}
            /\ scanline_fill(vertices) = {})
    /\ [][(vertices = <<>> /\ AtScanEntry(f, vertices)) =>
            (f'.pc = "filled" /\ f.i = 1)]_vars
    /\ [][(vertices = <<>> /\ AtReturn(f)) =>
            (f'.pc = "done" /\ f'.polygon_pixels = {} /\ f'.off_boundary_pixels = {})]_vars

(* the call for the ring of no vertices has returned, with two empty sets *)
C14_Witness ==
    vertices = <<>> /\ f.pc = "done" /\ f.polygon_pixels = {} /\ f.off_boundary_pixels = {}

(* C9: for the rectangle ring [(x0,y0),(x0,y1),(x1,y1),(x1,y0)] with x0 < x1 and
   y0 < y1, polygon_pixels is exactly the block x0..x1 by y0..y1 and the
   ambiguous set is empty. *)
C9_RectangleIsBlock ==
    f.pc = "done" =>
        \A x0, x1, y0, y1 \in 0..RectMax :
            (x0 < x1 /\ y0 < y1 /\ vertices = Rectangle(x0, y0, x1, y1)) =>
                /\ f.polygon_pixels = (x0..x1) \X (y0..y1)
                /\ f.off_boundary_pixels = {}

(* the ring [(0,0),(0,2),(2,2),(2,0)] has been rasterized to its nine cells *)
C9_Witness ==
    /\ f.pc = "done"
    /\ vertices = Rectangle(0, 0, 2, 2)
    /\ Cardinality(f.polygon_pixels) = 9
    /\ <<1, 1>> \in f.polygon_pixels

----------------------------------------------------------------------------
(* Properties of voxel_traversal_2d *)

Sign(n) == IF n > 0 THEN 1 ELSE IF n < 0 THEN -1 ELSE 0

Dx == end_vertex[1] - start_vertex[1]

Dy == end_vertex[2] - start_vertex[2]

Manhattan == Abs(Dx) + Abs(Dy)

IsGeneralWalk == Dx # 0 /\ Dy # 0

InLoop == w.pc = "loop"

Last(seq) == seq[Len(seq)]

(* C4, as stated: the ceiling of the walk is twice the Manhattan distance of the
   endpoints, 2 * (|dx| + |dy|), and an iteration raises the overflow error when,
   and only when, it is an iteration past that ceiling. *)
C4_CeilingIsTwiceManhattan ==
    /\ []((IsGeneralWalk /\ w.pc # "start") => w.max_steps = 2 * Manhattan)
    /\ [][InLoop => (w'.pc = "raise" <=> w.n_steps + 1 > 2 * Manhattan)]_vars
    /\ [](w.pc = "raise" <=> (IsGeneralWalk /\ w.n_steps > 2 * Manhattan))

(* C4, amended: the ceiling of the walk is the Manhattan distance of the endpoints,
   |dx| + |dy|, and an iteration raises the overflow error when, and only when, it
   is an iteration past that ceiling. *)
C4_CeilingIsManhattan ==
    /\ []((IsGeneralWalk /\ w.pc # "start") => w.max_steps = Manhattan)
    /\ [][InLoop => (w'.pc = "raise" <=> w.n_steps + 1 > Manhattan)]_vars
    /\ [](w.pc = "raise" <=> (IsGeneralWalk /\ w.n_steps > Manhattan))

(* a general walk that has used every iteration the ceiling allows *)
C4_Witness ==
    IsGeneralWalk /\ w.pc = "done" /\ w.n_steps = Manhattan /\ w.n_steps = w.max_steps

(* the last line cell has reached or passed the end point, on each axis in that
   axis's direction of travel *)
ReachedOrPassed ==
    LET last == Last(w.pixels)
    IN  /\ IF end_vertex[1] > start_vertex[1]
           THEN last[1] >= end_vertex[1] ELSE last[1] <= end_vertex[1]
        /\ IF end_vertex[2] > start_vertex[2]
           THEN last[2] >= end_vertex[2] ELSE last[2] <= end_vertex[2]

(* C5: every call ends: eventually the walk has stopped with both coordinates at
   or past the end point in their direction of travel, or it has raised the
   overflow error. *)
C5_Terminates ==
    <>(w.pc = "raise" \/ (w.pc = "done" /\ ReachedOrPassed))

(* a general walk of several iterations that has stopped at the end point *)
C5_Witness ==
    IsGeneralWalk /\ w.pc = "done" /\ w.n_steps >= 3 /\ ReachedOrPassed

(* C6: identical endpoints give the one line cell a; endpoints that share x
   (share y) give the |dy| + 1 (|dx| + 1) cells of the run from a to b, in that
   order; and none of these calls gives an ambiguous cell. *)
C6_DegenerateRuns ==
    (w.pc = "done" /\ ~IsGeneralWalk) =>
        /\ w.off_diagonal_pixels = <<>>
        /\ (Dx = 0 /\ Dy = 0) => w.pixels = <<start_vertex>>
        /\ Dx = 0 =>
              /\ Len(w.pixels) = Abs(Dy) + 1
              /\ \A i \in 1..Len(w.pixels) :
                    w.pixels[i] = <<start_vertex[1], start_vertex[2] + (i - 1) * Sign(Dy)>>
        /\ Dy = 0 =>
              /\ Len(w.pixels) = Abs(Dx) + 1
              /\ \A i \in 1..Len(w.pixels) :
                    w.pixels[i] = <<start_vertex[1] + (i - 1) * Sign(Dx), start_vertex[2]>>
        /\ w.pixels[1] = start_vertex
        /\ Last(w.pixels) = end_vertex

(* a vertical run of three cells or more, walked downwards *)
C6_Witness ==
    w.pc = "done" /\ Dx = 0 /\ Dy <= -2 /\ Len(w.pixels) = Abs(Dy) + 1

(* the decision value at the walker's current cell *)
DecisionAt == (1 + 2 * w.ix) * Abs(Dy) - (1 + 2 * w.iy) * Abs(Dx)

(* C7: in the general walk, an iteration at a cell (x, y) whose decision value is
   zero records exactly (x + dirx, y) and (x, y + diry) as ambiguous and moves to
   (x + dirx, y + diry); an iteration whose decision value is not zero records
   nothing and advances exactly one axis by one step.  The walk from (0,0) to
   (2,2) has the line cells (0,0), (1,1), (2,2), and (1,0) and (0,1) among its
   ambiguous cells. *)
C7_TieIsDiagonalStep ==
    /\ [][(InLoop /\ w'.pc # "raise") =>
            LET x == w.pixel_x
                y == w.pixel_y
            IN  IF DecisionAt = 0
                THEN /\ w'.off_diagonal_pixels =
                           w.off_diagonal_pixels
                               \o << <<x + Sign(Dx), y>>, <<x, y + Sign(Dy)>> >>
                     /\ <<w'.pixel_x, w'.pixel_y>> = <<x + Sign(Dx), y + Sign(Dy)>>
                     /\ w'.pixels = Append(w.pixels, <<x + Sign(Dx), y + Sign(Dy)>>)
                ELSE /\ w'.off_diagonal_pixels = w.off_diagonal_pixels
                     /\ \/ <<w'.pixel_x, w'.pixel_y>> = <<x + Sign(Dx), y>>
                        \/ <<w'.pixel_x, w'.pixel_y>> = <<x, y + Sign(Dy)>>
                     /\ w'.pixels = Append(w.pixels, <<w'.pixel_x, w'.pixel_y>>)]_vars
    /\ []((w.pc = "done" /\ start_vertex = <<0, 0>> /\ end_vertex = <<2, 2>>) =>
            /\ w.pixels = << <<0, 0>>, <<1, 1>>, <<2, 2>> >>
            /\ {<<1, 0>>, <<0, 1>>} \subseteq SetOf(w.off_diagonal_pixels))

(* the walk from (0,0) to (2,2) has ended, after two diagonal steps *)
C7_Witness ==
    /\ w.pc = "done" /\ start_vertex = <<0, 0>> /\ end_vertex = <<2, 2>>
    /\ Len(w.off_diagonal_pixels) = 4

(* C17: in a general walk (dx # 0 and dy # 0) the step counters stay within
   0 <= ix <= |dx| and 0 <= iy <= |dy|, and the current cell is the start point
   moved by them, so the walker never steps past b on either axis; the first line
   cell is a; the number of iterations never exceeds |dx| + |dy| and the
   step-limit exception is never raised; and the walk ends with its last line
   cell exactly b. *)
C17_WalkStaysInBox ==
    (IsGeneralWalk /\ w.pc # "start") =>
        /\ 0 <= w.ix /\ w.ix <= Abs(Dx)
        /\ 0 <= w.iy /\ w.iy <= Abs(Dy)
        /\ w.pixel_x = start_vertex[1] + w.ix * Sign(Dx)
        /\ w.pixel_y = start_vertex[2] + w.iy * Sign(Dy)
        /\ w.pixels[1] = start_vertex
        /\ Last(w.pixels) = <<w.pixel_x, w.pixel_y>>
        /\ w.n_steps <= Manhattan
        /\ w.pc # "raise"
        /\ w.pc = "done" => (Last(w.pixels) = end_vertex /\ w.ix = Abs(Dx) /\ w.iy = Abs(Dy))

(* a general walk along a shallow line, ended at b after horizontal, vertical and
   diagonal progress *)
C17_Witness ==
    /\ IsGeneralWalk /\ w.pc = "done"
    /\ Abs(Dx) = 3 /\ Abs(Dy) = 1
    /\ w.ix = 3 /\ w.iy = 1
    /\ Last(w.pixels) = end_vertex

(* a list read backwards *)
Reversed(seq) == [i \in 1..Len(seq) |-> seq[Len(seq) + 1 - i]]

(* C19: the walk from b to a returns the line cells of the walk from a to b in
   reverse order, so the same set of line cells, and the same set of off-diagonal
   cells. *)
C19_ReverseWalkAgrees ==
    w.pc = "done" =>
        LET back == voxel_traversal_2d(end_vertex, start_vertex)
        IN  /\ back.pc = "done"
            /\ back.pixels = Reversed(w.pixels)
            /\ SetOf(back.pixels) = SetOf(w.pixels)
            /\ SetOf(back.off_diagonal_pixels) = SetOf(w.off_diagonal_pixels)

(* a general walk with a diagonal step and single-axis steps has ended, and its
   reverse records the ambiguous cells in another order *)
C19_Witness ==
    /\ IsGeneralWalk /\ w.pc = "done"
    /\ w.off_diagonal_pixels # <<>>
    /\ Len(w.pixels) > Len(w.off_diagonal_pixels) \div 2 + 1
    /\ voxel_traversal_2d(end_vertex, start_vertex).off_diagonal_pixels
           # w.off_diagonal_pixels

====
